---- MODULE Spec2Model ----
(***************************************************************************)
(* The generic cached repository layer of kyc/common:                      *)
(*   CacheManager   (base_cache.py)  key-value cache client                *)
(*   BaseManager    (base_model.py)  durable-storage access                *)
(*   BaseRepository (base_repo.py)   cache-aside reads, invalidate-on-write*)
(* One Repository bound to the entity type ModelTest, one caller.  Every   *)
(* Repository call is one action; the faults of the cache backend and of   *)
(* the durable store during the call are inputs of the action.             *)
(***************************************************************************)
EXTENDS Integers, Sequences, FiniteSets, TLC

\* ---------------------------------------------------------------- bounds
\* the longest object list passed to a bulk operation
MaxBulk == 2
\* the longest object list, the largest batch size, the largest integer id and
\* the longest string id handed to the Manager when it is called directly
MaxObjs == 5
MaxBatch == 3
MaxNum == 11
MaxStr == 2
\* counters: the largest step and magnitude of a counter, and how many writes
\* of a counter key are followed
MaxDelta == 2
MaxCount == 3
MaxHist == 2

\* ------------------------------------------------------ program constants
CACHE_TIMEOUT == 900
ALL_TIMEOUT == 600

\* the primary keys of the table: two rows, so that one entity can change
\* while another stays
Ids == {1, 2}
\* the values of an entity's one business field, which this layer never
\* reads: an old one and a new one
Vals == {1, 2}
\* the ids a caller may pass: the well-formed ones and a malformed one
ObjIds == Ids \cup {-1}

\* ------------------------------------------------------------- entities
NoneVal == [id |-> 0, val |-> 0]
Ent(i, v) == [id |-> i, val |-> v]

\* ----------------------------------------------------------- cache keys
ModelName == "modeltest"
_get_cache_key(objId) == [type |-> ModelName, id |-> objId]
AllKey == [type |-> "modeltest_all", id |-> 0]
Keys == {_get_cache_key(i) : i \in ObjIds} \cup {AllKey}

\* a cache entry: an entity or an entity list, with the TTL it was set with
NoEntry == [present |-> FALSE, ent |-> NoneVal, list |-> <<>>, ttl |-> 0]
EntEntry(e, t) == [present |-> TRUE, ent |-> e, list |-> <<>>, ttl |-> t]
ListEntry(l, t) == [present |-> TRUE, ent |-> NoneVal, list |-> l, ttl |-> t]

\* store, cache: the table and the cache backend.  cacheEnabled: the
\* Repository's flag.  last: the record of the call that has just returned to
\* the caller ("idle" once the caller has taken it).  The others remember what
\* the caller did before: the ids delete_entity returned and nothing created
\* again (deletedIds; cleanDeleted: those whose invalidation succeeded),
\* and the call before the last one when it was a get_entity_by_id that
\* fetched an entity from the store (prevGet)
VARIABLES store, cache, cacheEnabled, last, deletedIds, cleanDeleted, prevGet, mcall

\* counters: the numeric entries of the cache backend, by key.  incrs: where
\* each caller of CacheManager.incr stands in its call.  hist: the writes of
\* the counter key since it was last absent, in the order the backend took them
VARIABLES counters, incrs, hist

counterVars == <<counters, incrs, hist>>

\* rd, wr: where two concurrent callers of one Repository stand, the one in
\* get_entity_by_id, the other in update_entity or delete_entity
VARIABLES rd, wr

raceVars == <<rd, wr>>

vars == <<store, cache, cacheEnabled, last, deletedIds, cleanDeleted, prevGet, mcall,
          counters, incrs, hist, rd, wr>>

\* --------------------------------------------------------- CacheManager
\* the backend's get: the entry, or None on a miss
CacheGet(ch, k) == ch[k]

\* set that stores nothing
CacheSet_dropped(ch, k, e, timeout) == ch

\* set that ignores the timeout it is given
CacheSet_defaultTtl(ch, k, e, timeout) ==
    [ch EXCEPT ![k] = [e EXCEPT !.ttl = CACHE_TIMEOUT]]

\* CacheManager.set: timeout or CACHE_TIMEOUT
CacheSet(ch, k, e, timeout) ==
    [ch EXCEPT ![k] = [e EXCEPT !.ttl = IF timeout = 0 THEN CACHE_TIMEOUT ELSE timeout]]

\* delete that leaves the entry
CacheDelete_noop(ch, k) == ch

\* CacheManager.delete: no-op on a missing key
CacheDelete(ch, k) == [ch EXCEPT ![k] = NoEntry]

\* a numeric cache entry
NoCounter == [present |-> FALSE, num |-> 0, ttl |-> 0]
NumEntry(n, t) == [present |-> TRUE, num |-> n, ttl |-> t]

\* a backend increment that answers without storing the sum
BackendIncr_readOnly(ch, k, delta) ==
    IF ch[k].present
    THEN [cache |-> ch, ret |-> ch[k].num + delta, raised |-> FALSE]
    ELSE [cache |-> ch, ret |-> 0, raised |-> TRUE]

\* cache.incr(key, delta=delta): the backend adds delta to the value under the
\* key in one step and keeps the entry's expiry; ValueError on a missing key
BackendIncr(ch, k, delta) ==
    IF ch[k].present
    THEN [cache |-> [ch EXCEPT ![k].num = @ + delta], ret |-> ch[k].num + delta,
          raised |-> FALSE]
    ELSE [cache |-> ch, ret |-> 0, raised |-> TRUE]

\* a reset that starts the counter at the delta
incr_except_delta(ch, k, delta) ==
    [cache |-> CacheSet(ch, k, NumEntry(delta, 0), 0), ret |-> delta]

\* CacheManager.incr, `except ValueError:` -- self.set(key, 1); return 1
incr_except(ch, k, delta) ==
    [cache |-> CacheSet(ch, k, NumEntry(1, 0), 0), ret |-> 1]

\* one record per CacheManager invocation of a call
CacheOp(o, k, ok) == [op |-> o, key |-> k, ok |-> ok]

\* ---------------------------------------------------------------- store
\* str(obj_id).isdigit() for the ids of the model
IsDigitId(objId) == objId >= 0

RECURSIVE SeqOfIds(_, _)
\* the ids of S in increasing order, from i on
SeqOfIds(S, i) ==
    IF i > Cardinality(Ids) THEN <<>>
    ELSE IF i \in S THEN <<i>> \o SeqOfIds(S, i + 1) ELSE SeqOfIds(S, i + 1)

\* the rows of the table, in primary-key order
AllRows(st) ==
    LET ids == SeqOfIds({i \in Ids : st[i] # NoneVal}, 1)
    IN [n \in 1..Len(ids) |-> st[ids[n]]]

\* BaseManager.get_by_id
MgrGetById(st, objId, dbFail) ==
    IF ~IsDigitId(objId)
    THEN [ret |-> NoneVal, raised |-> FALSE, db |-> 0]
    ELSE IF dbFail
    THEN [ret |-> NoneVal, raised |-> TRUE, db |-> 1]
    ELSE [ret |-> st[objId], raised |-> FALSE, db |-> 1]

\* The values a caller can pass as obj_id: an integer, a string (a sequence
\* of characters), a boolean or None
IntId(n) == [kind |-> "int", n |-> n, s |-> <<>>]
StrId(str) == [kind |-> "str", n |-> 0, s |-> str]
BoolId(b) == [kind |-> "bool", n |-> IF b THEN 1 ELSE 0, s |-> <<>>]
NoneId == [kind |-> "none", n |-> 0, s |-> <<>>]

Digits == <<"0", "1", "2", "3", "4", "5", "6", "7", "8", "9">>
DigitChars == {Digits[d] : d \in 1..Len(Digits)}
DigitVal(c) == (CHOOSE d \in 1..Len(Digits) : Digits[d] = c) - 1

RECURSIVE NatStr(_)
\* the decimal digits of a natural number
NatStr(n) == IF n < 10 THEN <<Digits[n + 1]>> ELSE NatStr(n \div 10) \o <<Digits[(n % 10) + 1]>>

\* str(obj_id)
Str(a) ==
    CASE a.kind = "int" -> IF a.n < 0 THEN <<"-">> \o NatStr(-a.n) ELSE NatStr(a.n)
      [] a.kind = "bool" -> IF a.n = 1 THEN <<"T", "r", "u", "e">> ELSE <<"F", "a", "l", "s", "e">>
      [] a.kind = "str" -> a.s
      [] OTHER -> <<"N", "o", "n", "e">>

\* isinstance(obj_id, (int, str)): bool is a subclass of int
IsIntOrStr(a) == a.kind \in {"int", "bool", "str"}

\* isdigit that accepts the empty string
isdigit_orEmpty(str) == \A n \in 1..Len(str) : str[n] \in DigitChars

\* str.isdigit() (over ASCII): at least one character, all of them digits
isdigit(str) == str # <<>> /\ \A n \in 1..Len(str) : str[n] \in DigitChars

RECURSIVE IntOf(_)
\* the number a digit string stands for
IntOf(str) == IF str = <<>> THEN 0 ELSE 10 * IntOf(SubSeq(str, 1, Len(str) - 1)) + DigitVal(str[Len(str)])

\* filter(id=obj_id).first(): the row whose primary key is the id's number
FirstById(st, a) ==
    LET pk == IF a.kind = "str" THEN IntOf(a.s) ELSE a.n
    IN  IF pk \in Ids THEN st[pk] ELSE NoneVal

\* an exception: its type and message; NoExc: none was raised
Exc(t, msg) == [type |-> t, msg |-> msg]
NoExc == Exc("", "")
\* str(e) of the failures the store raises; NoCause: the store answers
Causes == {"connection lost", "timeout"}
NoCause == ""

\* get_by_id that turns a storage failure into "absent"
get_by_id_swallowing(st, a, cause) ==
    IF ~IsIntOrStr(a) \/ ~isdigit(Str(a))
    THEN [ret |-> NoneVal, exc |-> NoExc, queries |-> <<>>]
    ELSE [ret |-> IF cause # NoCause THEN NoneVal ELSE FirstById(st, a),
          exc |-> NoExc, queries |-> <<a>>]

\* BaseManager.get_by_id for every shape of obj_id; queries: the ids the
\* store was queried with
get_by_id(st, a, cause) ==
    IF ~IsIntOrStr(a) \/ ~isdigit(Str(a))
    THEN [ret |-> NoneVal, exc |-> NoExc, queries |-> <<>>]
    ELSE IF cause # NoCause
    THEN [ret |-> NoneVal, exc |-> Exc("ValueError", cause), queries |-> <<a>>]
    ELSE [ret |-> FirstById(st, a), exc |-> NoExc, queries |-> <<a>>]

\* BaseManager.get_all
MgrGetAll(st, dbFail) ==
    IF dbFail
    THEN [list |-> <<>>, raised |-> TRUE, db |-> 1]
    ELSE [list |-> AllRows(st), raised |-> FALSE, db |-> 1]

\* create_instance that re-raises a failure that is no constraint violation
MgrCreateInstance_reraising(st, newId, v, kwEmpty, bound, dbFault) ==
    IF kwEmpty
    THEN [store |-> st, ret |-> NoneVal, raised |-> FALSE, db |-> 0]
    ELSE [store |-> IF dbFault = "ok" THEN [st EXCEPT ![newId] = Ent(newId, v)] ELSE st,
          ret |-> IF dbFault = "ok" THEN Ent(newId, v) ELSE NoneVal,
          raised |-> ~bound \/ dbFault = "other", db |-> IF bound THEN 1 ELSE 0]

\* BaseManager.create_instance: a new row with primary key newId, or None;
\* bound: the Manager is attached to a model
CreateFaults == {"ok", "integrity", "other"}
MgrCreateInstance(st, newId, v, kwEmpty, bound, dbFault) ==
    IF kwEmpty
    THEN [store |-> st, ret |-> NoneVal, raised |-> FALSE, db |-> 0]
    ELSE IF ~bound
    THEN [store |-> st, ret |-> NoneVal, raised |-> TRUE, db |-> 0]
    ELSE IF dbFault # "ok"
    THEN [store |-> st, ret |-> NoneVal, raised |-> FALSE, db |-> 1]
    ELSE [store |-> [st EXCEPT ![newId] = Ent(newId, v)], ret |-> Ent(newId, v),
          raised |-> FALSE, db |-> 1]

\* BaseModel.update: field assignment and save between the two hooks.
\* "pre": a hook or the save fails before the row is written;
\* "post": a hook fails after the row is written
UpdateFaults == {"ok", "pre", "post"}
ModelUpdate(st, inst, v, kwEmpty, updFault) ==
    IF kwEmpty
    THEN [store |-> st, ent |-> inst, raised |-> FALSE, db |-> 0]
    ELSE IF updFault = "pre"
    THEN [store |-> st, ent |-> inst, raised |-> TRUE, db |-> 0]
    ELSE [store |-> [st EXCEPT ![inst.id] = Ent(inst.id, v)], ent |-> Ent(inst.id, v),
          raised |-> updFault = "post", db |-> 1]

\* delete that reports success and leaves the row
ModelDelete_keepsRow(st, inst, delFail) ==
    [store |-> st, raised |-> delFail, db |-> 1]

\* BaseModel.delete
ModelDelete(st, inst, delFail) ==
    IF delFail
    THEN [store |-> st, raised |-> TRUE, db |-> 1]
    ELSE [store |-> [st EXCEPT ![inst.id] = NoneVal], raised |-> FALSE, db |-> 1]

\* ----------------------------------------------------- Manager, bulk
DEFAULT_BATCH == 100
DbFaults == {"ok", "integrity", "other"}

Min(a, b) == IF a < b THEN a ELSE b
ObjIdsOf(objs) == {objs[n].id : n \in 1..Len(objs)}

\* bulk_create_instances that does not pass its batch size on
MgrBulkCreate_defaultBatch(st, objs, b, dbFault) ==
    [store |-> st, list |-> <<>>, raised |-> FALSE, db |-> IF objs = <<>> THEN 0 ELSE 1,
     inserts |-> IF objs = <<>> THEN <<>> ELSE <<[objs |-> objs, batch_size |-> 100]>>]

\* bulk_create_instances that swallows every failure
MgrBulkCreate_swallowing(st, objs, b, dbFault) ==
    [store |-> st, list |-> <<>>, raised |-> FALSE, db |-> IF objs = <<>> THEN 0 ELSE 1,
     inserts |-> IF objs = <<>> THEN <<>> ELSE <<[objs |-> objs, batch_size |-> b]>>]

\* one call of Manager.bulk_create: what it is handed
InsertCall(objs, b) == [objs |-> objs, batch_size |-> b]

\* BaseManager.bulk_create_instances: one bulk_create call with all the objects
\* and the batch size; a primary key that is already there (or twice in the
\* list) is a constraint violation
MgrBulkCreate(st, objs, b, dbFault) ==
    LET clash == \/ \E n \in 1..Len(objs) : st[objs[n].id] # NoneVal
                 \/ Cardinality(ObjIdsOf(objs)) # Len(objs)
        called == <<InsertCall(objs, b)>>
    IN  IF objs = <<>>
        THEN [store |-> st, list |-> <<>>, raised |-> FALSE, db |-> 0, inserts |-> <<>>]
        ELSE IF dbFault = "other"
        THEN [store |-> st, list |-> <<>>, raised |-> TRUE, db |-> 1, inserts |-> called]
        ELSE IF dbFault = "integrity" \/ clash
        THEN [store |-> st, list |-> <<>>, raised |-> FALSE, db |-> 1, inserts |-> called]
        ELSE [store |-> [i \in Ids |-> IF i \in ObjIdsOf(objs)
                                       THEN objs[CHOOSE n \in 1..Len(objs) : objs[n].id = i]
                                       ELSE st[i]],
              list |-> objs, raised |-> FALSE, db |-> 1, inserts |-> called]

\* Manager.bulk_update of one batch: the rows that exist take the listed fields
ApplyBatch(st, batch, fields) ==
    [i \in Ids |->
        IF st[i] # NoneVal /\ i \in ObjIdsOf(batch) /\ \E n \in 1..Len(fields) : fields[n] = "val"
        THEN batch[CHOOSE n \in 1..Len(batch) : batch[n].id = i]
        ELSE st[i]]

\* a loop that hands every object to one batch update
BulkUpdateLoop_oneCall(st, objs, fields, b, i, n, failAt) ==
    [store |-> ApplyBatch(st, objs, fields), failed |-> FALSE, batches |-> <<objs>>]

\* a loop that goes on to the last batch whatever fails
BulkUpdateLoop_continuing(st, objs, fields, b, i, n, failAt) ==
    [store |-> st, failed |-> failAt > 0,
     batches |-> [k \in 1..((Len(objs) + b - 1) \div b) |->
                     SubSeq(objs, (k - 1) * b + 1, Min(k * b, Len(objs)))]]

RECURSIVE BulkUpdateLoop(_, _, _, _, _, _, _)
\* for i in range(0, len(objects), batch_size): the batch calls from index i
\* on, where batch number failAt (0: none) fails
BulkUpdateLoop(st, objs, fields, b, i, n, failAt) ==
    IF i > Len(objs) THEN [store |-> st, failed |-> FALSE, batches |-> <<>>]
    ELSE LET batch == SubSeq(objs, i, Min(i + b - 1, Len(objs)))
         IN  IF n = failAt
             THEN [store |-> st, failed |-> TRUE, batches |-> <<batch>>]
             ELSE LET rest == BulkUpdateLoop(ApplyBatch(st, batch, fields), objs, fields,
                                             b, i + b, n + 1, failAt)
                  IN  [rest EXCEPT !.batches = <<batch>> \o @]

\* how bulk_update_instances ends: the input list, an empty list after a
\* constraint violation, or the exception re-raised
BulkUpdateResult(objs, failKind, l) ==
    [store |-> l.store, batches |-> l.batches, db |-> Len(l.batches),
     list |-> IF l.failed THEN <<>> ELSE objs,
     raised |-> l.failed /\ failKind # "integrity"]

\* BaseManager.bulk_update_instances
MgrBulkUpdate(st, objs, fields, b, failAt, failKind) ==
    IF objs = <<>> \/ fields = <<>>
    THEN [store |-> st, list |-> <<>>, raised |-> FALSE, batches |-> <<>>, db |-> 0]
    ELSE BulkUpdateResult(objs, failKind, BulkUpdateLoop(st, objs, fields, b, 1, 1, failAt))

\* filter_by(**filters): equality on one field; NoFilter is the empty predicate
NoFilter == [f |-> "", x |-> 0]
Filters == {NoFilter} \cup {[f |-> "val", x |-> v] : v \in Vals}
                      \cup {[f |-> "id", x |-> i] : i \in Ids}
Matches(e, flt) == IF flt.f = "val" THEN e.val = flt.x ELSE e.id = flt.x

RECURSIVE SelectSeq2(_, _)
\* the entities of a list that match a predicate, in order
SelectSeq2(l, flt) ==
    IF l = <<>> THEN <<>>
    ELSE (IF Matches(Head(l), flt) THEN <<Head(l)>> ELSE <<>>) \o SelectSeq2(Tail(l), flt)

\* a guard that lets the empty predicate through
EmptyFilters_never(flt) == FALSE

\* `if not filters:` -- no keyword was given
EmptyFilters(flt) == flt = NoFilter

\* BaseManager.filter_by
MgrFilterBy(st, flt) == IF flt = NoFilter THEN AllRows(st) ELSE SelectSeq2(AllRows(st), flt)

\* delete that removes every row
DeleteByPk_everything(st, pks) == [i \in Ids |-> NoneVal]

\* filter_by(pk__in=[...]).delete()
DeleteByPk(st, pks) == [i \in Ids |-> IF i \in pks THEN NoneVal ELSE st[i]]

\* BaseManager.bulk_delete_instances: fetch, then delete the fetched by pk
MgrBulkDelete(st, flt, dbFault) ==
    LET instances == MgrFilterBy(st, flt)
    IN  IF EmptyFilters(flt)
        THEN [store |-> st, list |-> <<>>, raised |-> FALSE, db |-> 0]
        ELSE IF dbFault = "other"
        THEN [store |-> st, list |-> <<>>, raised |-> TRUE, db |-> 1]
        ELSE IF dbFault = "integrity"
        THEN [store |-> st, list |-> <<>>, raised |-> FALSE, db |-> 1]
        ELSE [store |-> DeleteByPk(st, ObjIdsOf(instances)),
              list |-> instances, raised |-> FALSE,
              db |-> IF instances = <<>> THEN 1 ELSE 2]

\* ------------------------------------------------------- the call record
\* what the last Repository call did: its result (ret, list) or the exception
\* it raised (exc), the CacheManager and Manager operations it invoked, the
\* store queries it issued (db), what the Manager returned, the cache entry
\* under the call's id key when the call started (hit), whether the call wrote
\* to the store (persisted), whether its id was a deleted one (wasDeleted),
\* whether a fetch of all the rows raised during the call (fetchFailed)
BaseCall(op, objId) ==
    [op |-> op, id |-> objId, ret |-> NoneVal, list |-> <<>>, exc |-> "none",
     cacheOps |-> <<>>, mgr |-> <<>>, db |-> 0,
     mgrReturned |-> FALSE, mgrRet |-> NoneVal, mgrList |-> <<>>,
     hit |-> NoEntry, persisted |-> FALSE, wasDeleted |-> FALSE, count |-> 0,
     fetchFailed |-> FALSE]

\* what a call made on the Manager directly did: its arguments (arg, objs,
\* fields, b, flt), the failure the store met it with (fault, failAt, cause),
\* its result (ret, list) or exception (exc), the store queries, batch updates
\* and bulk inserts it issued, where bulk_delete_instances stands between its
\* two steps (phase) and whether another writer came in between (interfered)
MCall(op) ==
    [op |-> op, arg |-> NoneId, objs |-> <<>>, fields |-> <<>>, b |-> 0, flt |-> NoFilter,
     fault |-> "ok", failAt |-> 0, cause |-> NoCause,
     ret |-> NoneVal, list |-> <<>>, exc |-> NoExc,
     queries |-> <<>>, batches |-> <<>>, inserts |-> <<>>, db |-> 0,
     phase |-> "done", interfered |-> FALSE]
MIdle == MCall("idle")

Out(st, ch, c) == [store |-> st, cache |-> ch, call |-> c]

\* a lookup that never hits
IsHit_never(entry) == FALSE

\* `if cached:` -- an entry that is there is a hit
IsHit(entry) == entry.present

\* ----------------------------------------------------------- Repository
\* BaseRepository.get_entity_by_id
get_entity_by_id(st, ch, en, objId, rdFail, wrFail, dbFail) ==
    LET key == _get_cache_key(objId)
        m == MgrGetById(st, objId, dbFail)
        c1 == [BaseCall("get_entity_by_id", objId) EXCEPT
                  !.hit = ch[key],
                  !.cacheOps = IF en THEN <<CacheOp("get", key, ~rdFail)>> ELSE <<>>]
        c2 == [c1 EXCEPT !.mgr = <<"get_by_id">>, !.db = m.db,
                         !.mgrReturned = ~m.raised, !.mgrRet = m.ret]
    IN  IF en /\ rdFail THEN Out(st, ch, [c1 EXCEPT !.exc = "CacheError"])
        ELSE IF en /\ IsHit(CacheGet(ch, key))
        THEN Out(st, ch, [c1 EXCEPT !.ret = CacheGet(ch, key).ent])
        ELSE IF m.raised THEN Out(st, ch, c2)
        ELSE IF m.ret # NoneVal /\ en
        THEN IF wrFail
             THEN Out(st, ch, [c2 EXCEPT !.cacheOps = @ \o <<CacheOp("set", key, FALSE)>>,
                                         !.exc = "CacheError"])
             ELSE Out(st, CacheSet(ch, key, EntEntry(m.ret, 0), CACHE_TIMEOUT),
                      [c2 EXCEPT !.cacheOps = @ \o <<CacheOp("set", key, TRUE)>>,
                                 !.ret = m.ret])
        ELSE Out(st, ch, [c2 EXCEPT !.ret = m.ret])

\* BaseRepository._fetch_all_entities
_fetch_all_entities(st, dbFail) == MgrGetAll(st, dbFail)

\* get_all_entities that fetches once for the cache and once for the caller
get_all_entities_refetching(st, ch, en, cacheFault, dbFail1, dbFail2) ==
    LET f == _fetch_all_entities(st, dbFail1)
    IN  Out(st, ch, [BaseCall("get_all_entities", 0) EXCEPT
                        !.hit = ch[AllKey], !.mgr = <<"get_all", "get_all">>, !.db = 2,
                        !.mgrReturned = TRUE, !.mgrList = f.list, !.list = f.list,
                        !.cacheOps = IF en THEN <<CacheOp("get_or_set", AllKey, TRUE)>>
                                     ELSE <<>>])

\* BaseRepository.get_all_entities.  cacheFault: "get" -- get_or_set fails
\* before the compute function runs; "set" -- it fails storing the computed
\* list.  dbFail1, dbFail2: whether the first and the second fetch fail
CacheFaults == {"none", "get", "set"}
get_all_entities(st, ch, en, cacheFault, dbFail1, dbFail2) ==
    LET c0 == [BaseCall("get_all_entities", 0) EXCEPT !.hit = ch[AllKey]]
        f1 == _fetch_all_entities(st, dbFail1)
        f2 == _fetch_all_entities(st, dbFail2)
        \* a fetch as the only or the fallback fetch of the call
        Direct(c, f) ==
            LET c1 == [c EXCEPT !.mgr = @ \o <<"get_all">>, !.db = @ + f.db,
                                !.mgrReturned = ~f.raised, !.mgrList = f.list,
                                !.fetchFailed = @ \/ f.raised]
            IN  IF f.raised THEN Out(st, ch, [c1 EXCEPT !.exc = "ValueError"])
                ELSE Out(st, ch, [c1 EXCEPT !.list = f.list])
        gos(ok) == [c0 EXCEPT !.cacheOps = <<CacheOp("get_or_set", AllKey, ok)>>]
        \* the compute function ran inside get_or_set
        computed(ok) == [gos(ok) EXCEPT !.mgr = <<"get_all">>, !.db = f1.db,
                                      !.mgrReturned = ~f1.raised, !.mgrList = f1.list,
                                      !.fetchFailed = f1.raised]
    IN  IF ~en THEN Direct(c0, f1)
        ELSE IF cacheFault = "get" THEN Direct(gos(FALSE), f1)
        ELSE IF CacheGet(ch, AllKey).present
        THEN Out(st, ch, [gos(TRUE) EXCEPT !.list = CacheGet(ch, AllKey).list])
        ELSE IF f1.raised THEN Direct(computed(FALSE), f2)
        ELSE IF cacheFault = "set" THEN Direct(computed(FALSE), f2)
        ELSE Out(st, CacheSet(ch, AllKey, ListEntry(f1.list, 0), ALL_TIMEOUT),
                 [computed(TRUE) EXCEPT !.list = f1.list])

\* BaseRepository.create_entity
create_entity(st, ch, en, newId, v, kwEmpty, bound, dbFault, wrFail) ==
    LET key == _get_cache_key(newId)
        m == MgrCreateInstance(st, newId, v, kwEmpty, bound, dbFault)
        c1 == [BaseCall("create_entity", newId) EXCEPT
                  !.hit = ch[key], !.mgr = <<"create_instance">>, !.db = m.db,
                  !.mgrReturned = ~m.raised, !.mgrRet = m.ret,
                  !.persisted = m.ret # NoneVal]
    IN  IF m.ret = NoneVal THEN Out(m.store, ch, c1)
        ELSE IF ~en THEN Out(m.store, ch, [c1 EXCEPT !.ret = m.ret])
        ELSE IF wrFail
        THEN Out(m.store, ch, [c1 EXCEPT !.cacheOps = <<CacheOp("delete", key, FALSE)>>])
        ELSE Out(m.store, CacheDelete(ch, key),
                 [c1 EXCEPT !.cacheOps = <<CacheOp("delete", key, TRUE)>>, !.ret = m.ret])

\* invalidation that does not look at the flag
Invalidate_ignoringFlag(ch, en, key, wrFail, c) ==
    IF wrFail
    THEN [cache |-> ch, call |-> [c EXCEPT !.cacheOps = @ \o <<CacheOp("delete", key, FALSE)>>]]
    ELSE [cache |-> [ch EXCEPT ![key] = NoEntry],
          call |-> [c EXCEPT !.cacheOps = @ \o <<CacheOp("delete", key, TRUE)>>]]

\* invalidation whose failure is raised to the caller
Invalidate_raising(ch, en, key, wrFail, c) ==
    IF ~en THEN [cache |-> ch, call |-> c]
    ELSE IF wrFail
    THEN [cache |-> ch, call |-> [c EXCEPT !.cacheOps = @ \o <<CacheOp("delete", key, FALSE)>>,
                                          !.exc = "CacheError"]]
    ELSE [cache |-> [ch EXCEPT ![key] = NoEntry],
          call |-> [c EXCEPT !.cacheOps = @ \o <<CacheOp("delete", key, TRUE)>>]]

\* the best-effort invalidation that ends update_entity and delete_entity
Invalidate(ch, en, key, wrFail, c) ==
    IF ~en THEN [cache |-> ch, call |-> c]
    ELSE IF wrFail
    THEN [cache |-> ch, call |-> [c EXCEPT !.cacheOps = @ \o <<CacheOp("delete", key, FALSE)>>]]
    ELSE [cache |-> CacheDelete(ch, key),
          call |-> [c EXCEPT !.cacheOps = @ \o <<CacheOp("delete", key, TRUE)>>]]

\* BaseRepository.update_entity
update_entity(st, ch, en, objId, v, kwEmpty, dbFail, updFault, wrFail) ==
    LET key == _get_cache_key(objId)
        m == MgrGetById(st, objId, dbFail)
        c1 == [BaseCall("update_entity", objId) EXCEPT
                  !.hit = ch[key], !.mgr = <<"get_by_id">>, !.db = m.db,
                  !.mgrReturned = ~m.raised, !.mgrRet = m.ret]
    IN  IF m.raised THEN Out(st, ch, [c1 EXCEPT !.exc = "ValueError"])
        ELSE IF m.ret = NoneVal THEN Out(st, ch, c1)
        ELSE LET u == ModelUpdate(st, m.ret, v, kwEmpty, updFault)
                 c2 == [c1 EXCEPT !.db = @ + u.db, !.persisted = u.db > 0, !.mgrRet = u.ent]
             IN  IF u.raised THEN Out(u.store, ch, [c2 EXCEPT !.exc = "ValueError"])
                 ELSE LET i == Invalidate(ch, en, key, wrFail, c2)
                      IN  Out(u.store, i.cache, [i.call EXCEPT !.ret = u.ent])

\* delete_entity that invalidates before it looks the entity up
delete_entity_invalidatingFirst(st, ch, en, objId, dbFail, delFail, wrFail) ==
    LET key == _get_cache_key(objId)
        m == MgrGetById(st, objId, dbFail)
        i == Invalidate(ch, en, key, wrFail, [BaseCall("delete_entity", objId) EXCEPT !.hit = ch[key]])
        c1 == [i.call EXCEPT !.mgr = <<"get_by_id">>, !.db = m.db,
                             !.mgrReturned = ~m.raised, !.mgrRet = m.ret]
    IN  IF m.raised THEN Out(st, i.cache, [c1 EXCEPT !.exc = "ValueError"])
        ELSE IF m.ret = NoneVal THEN Out(st, i.cache, c1)
        ELSE LET d == ModelDelete(st, m.ret, delFail)
                 c2 == [c1 EXCEPT !.db = @ + d.db, !.persisted = ~d.raised]
             IN  IF d.raised THEN Out(st, i.cache, [c2 EXCEPT !.exc = "ValueError"])
                 ELSE Out(d.store, i.cache, [c2 EXCEPT !.ret = m.ret])

\* BaseRepository.delete_entity
delete_entity(st, ch, en, objId, dbFail, delFail, wrFail) ==
    LET key == _get_cache_key(objId)
        m == MgrGetById(st, objId, dbFail)
        c1 == [BaseCall("delete_entity", objId) EXCEPT
                  !.hit = ch[key], !.mgr = <<"get_by_id">>, !.db = m.db,
                  !.mgrReturned = ~m.raised, !.mgrRet = m.ret]
    IN  IF m.raised THEN Out(st, ch, [c1 EXCEPT !.exc = "ValueError"])
        ELSE IF m.ret = NoneVal THEN Out(st, ch, c1)
        ELSE LET d == ModelDelete(st, m.ret, delFail)
                 c2 == [c1 EXCEPT !.db = @ + d.db, !.persisted = ~d.raised]
             IN  IF d.raised THEN Out(st, ch, [c2 EXCEPT !.exc = "ValueError"])
                 ELSE LET i == Invalidate(ch, en, key, wrFail, c2)
                      IN  Out(d.store, i.cache, [i.call EXCEPT !.ret = m.ret])

RECURSIVE InvalidateAll_aborting(_, _, _)
\* a loop that the first failing delete ends
InvalidateAll_aborting(ch, ents, failIds) ==
    IF ents = <<>> THEN [cache |-> ch, ops |-> <<>>]
    ELSE LET key == _get_cache_key(Head(ents).id)
         IN  IF Head(ents).id \in failIds
             THEN [cache |-> ch, ops |-> <<CacheOp("delete", key, FALSE)>>]
             ELSE LET rest == InvalidateAll_aborting(CacheDelete(ch, key), Tail(ents), failIds)
                  IN  [rest EXCEPT !.ops = <<CacheOp("delete", key, TRUE)>> \o @]

RECURSIVE InvalidateAll(_, _, _)
\* the per-instance invalidation loop of the bulk operations: a delete that
\* fails (its id in failIds) is noted and the loop goes on
InvalidateAll(ch, ents, failIds) ==
    IF ents = <<>> THEN [cache |-> ch, ops |-> <<>>]
    ELSE LET key == _get_cache_key(Head(ents).id)
             ok == Head(ents).id \notin failIds
             rest == InvalidateAll(IF ok THEN CacheDelete(ch, key) ELSE ch, Tail(ents), failIds)
         IN  [rest EXCEPT !.ops = <<CacheOp("delete", key, ok)>> \o @]

InvalidatedOut(st, c, i) == Out(st, i.cache, [c EXCEPT !.cacheOps = i.ops])

\* a bulk operation that swallows what the Manager raised
AfterBulk_swallowing(ch, en, c0, m, mgrName, exc, counted, failIds) ==
    Out(m.store, ch, [c0 EXCEPT !.mgr = <<mgrName>>, !.db = m.db,
                                !.mgrReturned = ~m.raised, !.mgrList = m.list])

\* the part of a bulk operation that follows the Manager's call: the exception
\* re-raised (as exc), or the invalidation loop over what the Manager returned
\* and the return (counted: with the length of the list)
AfterBulk(ch, en, c0, m, mgrName, exc, counted, failIds) ==
    LET c1 == [c0 EXCEPT !.mgr = <<mgrName>>, !.db = m.db,
                         !.mgrReturned = ~m.raised, !.mgrList = m.list,
                         !.persisted = m.list # <<>>, !.list = m.list,
                         !.count = IF counted THEN Len(m.list) ELSE 0]
    IN  IF m.raised THEN Out(m.store, ch, [c1 EXCEPT !.exc = exc])
        ELSE IF en /\ m.list # <<>>
        THEN InvalidatedOut(m.store, c1, InvalidateAll(ch, m.list, failIds))
        ELSE Out(m.store, ch, c1)

\* BaseRepository.bulk_create_entities
bulk_create_entities(st, ch, en, objs, dbFault, failIds) ==
    IF objs = <<>> THEN Out(st, ch, BaseCall("bulk_create_entities", 0))
    ELSE AfterBulk(ch, en, BaseCall("bulk_create_entities", 0),
                   MgrBulkCreate(st, objs, DEFAULT_BATCH, dbFault),
                   "bulk_create_instances", "DatabaseError", FALSE, failIds)

\* BaseRepository.bulk_update_entities
bulk_update_entities(st, ch, en, objs, fields, dbFault, failIds) ==
    IF objs = <<>> THEN Out(st, ch, BaseCall("bulk_update_entities", 0))
    ELSE IF fields = <<>>
    THEN Out(st, ch, [BaseCall("bulk_update_entities", 0) EXCEPT !.exc = "ValueError"])
    ELSE AfterBulk(ch, en, BaseCall("bulk_update_entities", 0),
                   MgrBulkUpdate(st, objs, fields, DEFAULT_BATCH,
                                 IF dbFault = "ok" THEN 0 ELSE 1, dbFault),
                   "bulk_update_instances", "ValueError", FALSE, failIds)

\* bulk_delete_entities that deletes the entity its instances argument names
bulk_delete_entities_byInstances(st, ch, en, objs, flt, dbFault, failIds) ==
    IF objs = <<>> THEN Out(st, ch, BaseCall("bulk_delete_entities", 0))
    ELSE AfterBulk(ch, en, BaseCall("bulk_delete_entities", 0),
                   MgrBulkDelete(st, [f |-> "id", x |-> objs[1].id], dbFault),
                   "bulk_delete_instances", "DatabaseError", TRUE, failIds)

\* BaseRepository.bulk_delete_entities
bulk_delete_entities(st, ch, en, objs, flt, dbFault, failIds) ==
    IF objs = <<>> THEN Out(st, ch, BaseCall("bulk_delete_entities", 0))
    ELSE AfterBulk(ch, en, BaseCall("bulk_delete_entities", 0),
                   MgrBulkDelete(st, flt, dbFault),
                   "bulk_delete_instances", "DatabaseError", TRUE, failIds)

\* ------------------------------------------------------------ the inputs
\* the object lists a caller passes to a bulk operation: up to MaxBulk
\* entities carrying the same new value
ObjLists ==
    {l \in UNION {[1..n -> {Ent(i, v) : i \in Ids, v \in Vals}] : n \in 0..MaxBulk} :
        \A a, b \in 1..Len(l) : l[a].val = l[b].val}
\* the instances argument of bulk_delete_entities
GateLists == {l \in ObjLists : Len(l) <= 1 /\ \A n \in 1..Len(l) : l[n].val = 1}
FieldLists == {<<>>, <<"val">>}

\* ------------------------------------------------------ the state machine
Idle == BaseCall("idle", 0)
NoPrev == [id |-> 0, db |-> 0]
\* the counter keys of the backend and the callers of incr
CounterKeys == {"counter"}
Callers == {1, 2}
\* a caller's call of incr: the delta it passed, whether the backend's
\* increment found the key missing, the value returned
IncrCall(pc, delta, missed, ret) == [pc |-> pc, delta |-> delta, missed |-> missed, ret |-> ret]
NoIncr == IncrCall("idle", 0, FALSE, 0)
\* the reader's call of get_entity_by_id: the instance it fetched, what it
\* returned, and how its two steps on shared state lie to the writer's
\* (it read the store before the writer wrote it, it set the cache entry after
\* the writer deleted it)
RdIdle == [pc |-> "idle", id |-> 0, inst |-> NoneVal, ret |-> NoneVal,
           fetchedBefore |-> FALSE, setAfter |-> FALSE]
\* the writer's call of update_entity or delete_entity: the instance its
\* lookup returned (old) and the value it assigns
WrIdle == [pc |-> "idle", op |-> "none", id |-> 0, v |-> 0, old |-> NoneVal]

Init ==
    /\ store = [i \in Ids |-> NoneVal]
    /\ cache = [k \in Keys |-> NoEntry]
    /\ cacheEnabled \in BOOLEAN
    /\ last = Idle
    /\ deletedIds = {}
    /\ cleanDeleted = {}
    /\ prevGet = NoPrev
    /\ mcall = MIdle
    /\ counters = [k \in CounterKeys |-> NoCounter]
    /\ incrs = [p \in Callers |-> NoIncr]
    /\ hist = <<>>
    /\ rd = RdIdle
    /\ wr = WrIdle

\* the ids a call brought into the store
Created(o) == {i \in Ids : store[i] = NoneVal /\ o.store[i] # NoneVal}

\* the call deleted its id key from the cache
Invalidated(c) ==
    \E n \in 1..Len(c.cacheOps) :
        c.cacheOps[n] = CacheOp("delete", _get_cache_key(c.id), TRUE)

\* a Repository call ran to completion on the caller's thread: its effects on
\* store and cache, and its record
Effects(out) ==
    \E o \in {out} :
      LET byDelete == o.call.op = "delete_entity" /\ o.call.ret # NoneVal
      IN  /\ store' = o.store
          /\ cache' = o.cache
          /\ last' = [o.call EXCEPT !.wasDeleted = o.call.id \in deletedIds]
          /\ deletedIds' = (deletedIds \ Created(o))
                              \cup (IF byDelete THEN {o.call.id} ELSE {})
          /\ cleanDeleted' = (cleanDeleted \ Created(o))
                              \cup (IF byDelete /\ Invalidated(o.call)
                                    THEN {o.call.id} ELSE {})
          /\ UNCHANGED <<cacheEnabled, prevGet, counterVars, raceVars>>

Finish(out) == Effects(out) /\ UNCHANGED mcall

\* the caller takes the result
Return ==
    /\ last # Idle
    /\ last' = Idle
    /\ prevGet' = IF /\ last.op = "get_entity_by_id"
                     /\ last.ret # NoneVal
                     /\ last.mgr # <<>>
                  THEN [id |-> last.id, db |-> last.db]
                  ELSE NoPrev
    /\ UNCHANGED <<store, cache, cacheEnabled, deletedIds, cleanDeleted, mcall, counterVars, raceVars>>

\* The faults of a call are inputs.  Where the first fault ends the call (or
\* is its last step) one fault per call covers every outcome; a fault of the
\* cache needs the flag on.
GetFaults == {"none", "read", "db", "write"}
GetEntityById ==
    /\ last = Idle
    /\ \E objId \in ObjIds, fault \in GetFaults :
        /\ cacheEnabled \/ fault \in {"none", "db"}
        /\ Finish(get_entity_by_id(store, cache, cacheEnabled, objId,
                                   fault = "read", fault = "write", fault = "db"))

GetAllEntities ==
    /\ last = Idle
    /\ \E cacheFault \in CacheFaults, dbFail1, dbFail2 \in BOOLEAN :
        /\ cacheEnabled \/ (cacheFault = "none" /\ ~dbFail2)
        /\ Finish(get_all_entities(store, cache, cacheEnabled, cacheFault, dbFail1, dbFail2))

\* the new row's primary key is one the table does not hold
CreateEntity ==
    /\ last = Idle
    /\ \E newId \in Ids, v \in Vals, kwEmpty, bound \in BOOLEAN, dbFault \in CreateFaults,
          wrFail \in BOOLEAN :
        /\ store[newId] = NoneVal
        /\ wrFail => (cacheEnabled /\ dbFault = "ok" /\ ~kwEmpty /\ bound)
        /\ kwEmpty => (dbFault = "ok" /\ v = 1)
        /\ ~bound => (dbFault = "ok" /\ v = 1)
        /\ Finish(create_entity(store, cache, cacheEnabled, newId, v, kwEmpty, bound,
                                dbFault, wrFail))

UpdateCallFaults == {"none", "lookup", "pre", "post", "cache"}
UpdateEntity ==
    /\ last = Idle
    /\ \E objId \in ObjIds, v \in Vals, kwEmpty \in BOOLEAN, fault \in UpdateCallFaults :
        /\ cacheEnabled \/ fault # "cache"
        /\ kwEmpty => (v = 1 /\ fault \notin {"pre", "post"})
        /\ Finish(update_entity(store, cache, cacheEnabled, objId, v, kwEmpty,
                                fault = "lookup",
                                IF fault \in {"pre", "post"} THEN fault ELSE "ok",
                                fault = "cache"))

DeleteCallFaults == {"none", "lookup", "delete", "cache"}
DeleteEntity ==
    /\ last = Idle
    /\ \E objId \in ObjIds, fault \in DeleteCallFaults :
        /\ cacheEnabled \/ fault # "cache"
        /\ Finish(delete_entity(store, cache, cacheEnabled, objId,
                                fault = "lookup", fault = "delete", fault = "cache"))

\* failIds: the ids whose cache delete fails
BulkCreateEntities ==
    /\ last = Idle
    /\ \E objs \in ObjLists, dbFault \in DbFaults, failIds \in SUBSET Ids :
        /\ failIds # {} => (cacheEnabled /\ dbFault = "ok" /\ failIds \subseteq ObjIdsOf(objs))
        /\ Finish(bulk_create_entities(store, cache, cacheEnabled, objs, dbFault, failIds))

BulkUpdateEntities ==
    /\ last = Idle
    /\ \E objs \in ObjLists, fields \in FieldLists, dbFault \in DbFaults,
          failIds \in SUBSET Ids :
        /\ failIds # {} => (cacheEnabled /\ dbFault = "ok" /\ failIds \subseteq ObjIdsOf(objs))
        /\ fields = <<>> => (dbFault = "ok" /\ failIds = {})
        /\ Finish(bulk_update_entities(store, cache, cacheEnabled, objs, fields, dbFault, failIds))

BulkDeleteEntities ==
    /\ last = Idle
    /\ \E objs \in GateLists, flt \in Filters, dbFault \in DbFaults, failIds \in SUBSET Ids :
        /\ failIds # {} => (cacheEnabled /\ dbFault = "ok" /\ objs # <<>>)
        /\ Finish(bulk_delete_entities(store, cache, cacheEnabled, objs, flt, dbFault, failIds))

Next ==
    \/ GetEntityById
    \/ GetAllEntities
    \/ CreateEntity
    \/ UpdateEntity
    \/ DeleteEntity
    \/ BulkCreateEntities
    \/ BulkUpdateEntities
    \/ BulkDeleteEntities
    \/ Return

Spec == Init /\ [][Next]_vars

\* the Repository constructed with cache_enabled=False, the default
InitNoCache == Init /\ ~cacheEnabled
SpecNoCache == InitNoCache /\ [][Next]_vars

\* ------------------------------------------- the Manager called directly
\* The Manager is a public object of its own (Model.objects): its operations
\* with the arguments a Repository never passes (ids of any shape, batch
\* sizes), and bulk_delete_instances as the two store operations it is, with
\* another writer of the same table in between.
CharsOfIds == {"0", "1", "2", "-", "a"}
IdArgs ==
    {IntId(n) : n \in (0 - MaxNum)..MaxNum}
       \cup {StrId(str) : str \in UNION {[1..n -> CharsOfIds] : n \in 0..MaxStr}}
       \cup {BoolId(TRUE), BoolId(FALSE), NoneId}
MObjLists ==
    {l \in UNION {[1..n -> {Ent(i, v) : i \in Ids, v \in Vals}] : n \in 0..MaxObjs} :
        \A a, b \in 1..Len(l) : l[a].val = l[b].val}
BatchSizes == 1..MaxBatch
\* the exception a bulk operation lets through
DbError == Exc("DatabaseError", "db error")

MDone(st, c) ==
    /\ store' = st
    /\ mcall' = c
    /\ UNCHANGED <<cache, cacheEnabled, last, deletedIds, cleanDeleted, prevGet, counterVars, raceVars>>

MGetById ==
    /\ mcall = MIdle
    /\ \E a \in IdArgs, cause \in Causes \cup {NoCause} :
        LET r == get_by_id(store, a, cause)
        IN  MDone(store, [MCall("get_by_id") EXCEPT
                             !.arg = a, !.cause = cause, !.ret = r.ret, !.exc = r.exc,
                             !.queries = r.queries, !.db = Len(r.queries)])

MCreateInstance ==
    /\ mcall = MIdle
    /\ \E newId \in Ids, v \in Vals, dbFault \in CreateFaults :
        /\ store[newId] = NoneVal
        /\ LET r == MgrCreateInstance(store, newId, v, FALSE, TRUE, dbFault)
           IN  MDone(r.store, [MCall("create_instance") EXCEPT
                                  !.fault = dbFault, !.ret = r.ret, !.db = r.db])

MBulkCreate ==
    /\ mcall = MIdle
    /\ \E objs \in MObjLists, b \in BatchSizes, dbFault \in DbFaults :
        LET r == MgrBulkCreate(store, objs, b, dbFault)
        IN  MDone(r.store, [MCall("bulk_create_instances") EXCEPT
                               !.objs = objs, !.b = b, !.fault = dbFault, !.list = r.list,
                               !.exc = IF r.raised THEN DbError ELSE NoExc,
                               !.inserts = r.inserts, !.db = r.db])

\* failAt: the number of the batch the store rejects (0: none)
MBulkUpdate ==
    /\ mcall = MIdle
    /\ \E objs \in MObjLists, fields \in FieldLists, b \in BatchSizes,
          failAt \in 0..MaxBatch, failKind \in DbFaults :
        /\ (failAt = 0) = (failKind = "ok")
        /\ LET r == MgrBulkUpdate(store, objs, fields, b, failAt, failKind)
           IN  MDone(r.store, [MCall("bulk_update_instances") EXCEPT
                                  !.objs = objs, !.fields = fields, !.b = b,
                                  !.failAt = failAt, !.fault = failKind, !.list = r.list,
                                  !.exc = IF r.raised THEN DbError ELSE NoExc,
                                  !.batches = r.batches, !.db = r.db])

\* bulk_delete_instances up to and including list(self.filter_by(**filters))
MBulkDeleteFetch ==
    /\ mcall = MIdle
    /\ \E flt \in Filters, dbFault \in DbFaults :
        LET c == [MCall("bulk_delete_instances") EXCEPT !.flt = flt, !.fault = dbFault]
            instances == MgrFilterBy(store, flt)
        IN  IF EmptyFilters(flt) THEN dbFault = "ok" /\ MDone(store, c)
            ELSE IF dbFault = "other" THEN MDone(store, [c EXCEPT !.exc = DbError, !.db = 1])
            ELSE IF dbFault = "integrity" THEN MDone(store, [c EXCEPT !.db = 1])
            ELSE IF instances = <<>> THEN MDone(store, [c EXCEPT !.db = 1])
            ELSE MDone(store, [c EXCEPT !.db = 1, !.list = instances, !.phase = "fetched"])

\* another writer creates, changes or deletes a row between the two steps
OtherWriter ==
    /\ mcall.phase = "fetched"
    /\ ~mcall.interfered
    /\ \E i \in Ids : \E e \in {NoneVal} \cup {Ent(i, v) : v \in Vals} :
        /\ e # store[i]
        /\ MDone([store EXCEPT ![i] = e], [mcall EXCEPT !.interfered = TRUE])

\* bulk_delete_instances from filter_by(pk__in=...).delete() on
MBulkDeleteFinish ==
    /\ mcall.phase = "fetched"
    /\ \E dbFault \in DbFaults :
        LET c == [mcall EXCEPT !.phase = "done", !.fault = dbFault, !.db = 2]
        IN  IF dbFault = "other" THEN MDone(store, [c EXCEPT !.exc = DbError, !.list = <<>>])
            ELSE IF dbFault = "integrity" THEN MDone(store, [c EXCEPT !.list = <<>>])
            ELSE MDone(DeleteByPk(store, ObjIdsOf(mcall.list)), c)

\* the caller takes the result
MReturn ==
    /\ mcall # MIdle
    /\ mcall.phase = "done"
    /\ mcall' = MIdle
    /\ UNCHANGED <<store, cache, cacheEnabled, last, deletedIds, cleanDeleted, prevGet, counterVars, raceVars>>

MNext ==
    \/ MGetById
    \/ MCreateInstance
    \/ MBulkCreate
    \/ MBulkUpdate
    \/ MBulkDeleteFetch
    \/ OtherWriter
    \/ MBulkDeleteFinish
    \/ MReturn

\* the Manager of a model used without a repository
MInit == Init /\ ~cacheEnabled
SpecMgr == MInit /\ [][MNext]_vars

\* ------------------------------------------ the CacheManager's counters
\* CacheManager.incr called by two callers at once.  A call is the backend's
\* increment (one step of the backend) and, when that found the key missing,
\* the set that resets the counter: another caller can come in between.
CounterKey == "counter"
Deltas == (0 - MaxDelta)..MaxDelta
Nums == (0 - MaxCount)..MaxCount
\* timeout arguments of set: None (0) or a number of seconds
Timeouts == {0, 60}
repoVars == <<store, cache, cacheEnabled, last, deletedIds, cleanDeleted, prevGet, mcall, rd, wr>>

\* a write of the counter key the backend took: who, what, with which number
Wrote(p, kind, n) == [who |-> p, kind |-> kind, n |-> n]

\* CacheManager.set(key, n, timeout) by a caller that is not inside incr
CounterSet ==
    /\ Len(hist) < MaxHist
    /\ \E p \in Callers, n \in Nums, t \in Timeouts :
        /\ incrs[p].pc = "idle"
        /\ counters' = CacheSet(counters, CounterKey, NumEntry(n, 0), t)
        /\ hist' = Append(hist, Wrote(p, "set", n))
    /\ UNCHANGED <<incrs, repoVars>>

\* CacheManager.delete(key), or the entry expires
CounterDelete ==
    /\ counters[CounterKey].present
    /\ counters' = [counters EXCEPT ![CounterKey] = NoCounter]
    /\ hist' = <<>>
    /\ UNCHANGED <<incrs, repoVars>>

\* CacheManager.incr up to the backend's answer: the sum is returned, or the
\* ValueError is caught
IncrBackend ==
    \E p \in Callers, delta \in Deltas :
        LET r == BackendIncr(counters, CounterKey, delta)
        IN  /\ incrs[p].pc = "idle"
            /\ r.raised \/ Len(hist) < MaxHist
            /\ r.ret \in Nums
            /\ counters' = r.cache
            /\ incrs' = [incrs EXCEPT ![p] =
                            IF r.raised THEN IncrCall("missed", delta, TRUE, 0)
                            ELSE IncrCall("done", delta, FALSE, r.ret)]
            /\ hist' = IF r.raised THEN hist ELSE Append(hist, Wrote(p, "incr", delta))
            /\ UNCHANGED repoVars

\* CacheManager.incr, the except branch: set the key to 1 and return 1
IncrExcept ==
    \E p \in Callers :
        LET r == incr_except(counters, CounterKey, incrs[p].delta)
        IN  /\ incrs[p].pc = "missed"
            /\ Len(hist) < MaxHist
            /\ counters' = r.cache
            /\ incrs' = [incrs EXCEPT ![p].pc = "done", ![p].ret = r.ret]
            /\ hist' = Append(hist, Wrote(p, "reset", r.ret))
            /\ UNCHANGED repoVars

\* the caller takes the result
IncrReturn ==
    /\ \E p \in Callers :
        /\ incrs[p].pc = "done"
        /\ incrs' = [incrs EXCEPT ![p] = NoIncr]
    /\ UNCHANGED <<counters, hist, repoVars>>

CNext ==
    \/ CounterSet
    \/ CounterDelete
    \/ IncrBackend
    \/ IncrExcept
    \/ IncrReturn

CInit == Init /\ ~cacheEnabled
SpecCache == CInit /\ [][CNext]_vars

\* ------------------------------------------------ two concurrent callers
\* One caller in get_entity_by_id and one in update_entity or delete_entity,
\* on a Repository with the cache on.  Each call is the sequence of its
\* Manager and CacheManager operations; the Repository takes no lock, so the
\* operations of the two calls interleave in any order.  The store holds any
\* rows at the start and the cache holds nothing the store does not.
RaceStores == [Ids -> {NoneVal} \cup {Ent(i, v) : i \in Ids, v \in Vals}]
\* a Repository in use: a table with rows and a cache that agrees with it
TableInit ==
    /\ store \in {st \in RaceStores : \A i \in Ids : st[i] # NoneVal => st[i].id = i}
    /\ cache \in {ch \in [Keys -> {NoEntry} \cup {EntEntry(e, CACHE_TIMEOUT) : e \in {store[i] : i \in Ids}}] :
                    \A k \in Keys : ch[k].present =>
                        (ch[k].ent # NoneVal /\ k = _get_cache_key(ch[k].ent.id))}
    /\ last = Idle
    /\ deletedIds = {}
    /\ cleanDeleted = {}
    /\ prevGet = NoPrev
    /\ mcall = MIdle
    /\ counters = [k \in CounterKeys |-> NoCounter]
    /\ incrs = [p \in Callers |-> NoIncr]
    /\ hist = <<>>
    /\ rd = RdIdle
    /\ wr = WrIdle

RInit == TableInit /\ cacheEnabled = TRUE

restOfRace == <<cacheEnabled, last, deletedIds, cleanDeleted, prevGet, mcall, counterVars>>

\* get_entity_by_id: cached = self._cache_manager.get(cache_key); a hit returns
RdCacheGet ==
    /\ rd.pc = "idle"
    /\ \E objId \in Ids :
        LET cached == CacheGet(cache, _get_cache_key(objId))
        IN  rd' = IF IsHit(cached)
                  THEN [RdIdle EXCEPT !.pc = "done", !.id = objId, !.ret = cached.ent]
                  ELSE [RdIdle EXCEPT !.pc = "missed", !.id = objId]
    /\ UNCHANGED <<store, cache, wr, restOfRace>>

\* get_entity_by_id: instance = self.manager.get_by_id(obj_id); None returns
RdFetch ==
    /\ rd.pc = "missed"
    /\ LET m == MgrGetById(store, rd.id, FALSE)
       IN  rd' = IF m.ret = NoneVal
                 THEN [rd EXCEPT !.pc = "done"]
                 ELSE [rd EXCEPT !.pc = "fetched", !.inst = m.ret,
                                 !.fetchedBefore = wr.pc \in {"idle", "found"}]
    /\ UNCHANGED <<store, cache, wr, restOfRace>>

\* get_entity_by_id: self._cache_manager.set(cache_key, instance, ...); return
RdCacheSet ==
    /\ rd.pc = "fetched"
    /\ cache' = CacheSet(cache, _get_cache_key(rd.id), EntEntry(rd.inst, 0), CACHE_TIMEOUT)
    /\ rd' = [rd EXCEPT !.pc = "done", !.ret = rd.inst,
                        !.setAfter = wr.pc = "done"]
    /\ UNCHANGED <<store, wr, restOfRace>>

\* update_entity, delete_entity: instance = self.manager.get_by_id(obj_id);
\* None returns
WrLookup ==
    /\ wr.pc = "idle"
    /\ \E objId \in Ids, op \in {"update_entity", "delete_entity"}, v \in Vals :
        LET m == MgrGetById(store, objId, FALSE)
        IN  /\ op = "delete_entity" => v = 1
            /\ wr' = [pc |-> IF m.ret = NoneVal THEN "done" ELSE "found",
                      op |-> op, id |-> objId, v |-> v, old |-> m.ret]
    /\ UNCHANGED <<store, cache, rd, restOfRace>>

\* update_entity: instance.update(**kwargs); delete_entity: instance.delete()
WrPersist ==
    /\ wr.pc = "found"
    /\ store' = IF wr.op = "update_entity"
                THEN ModelUpdate(store, wr.old, wr.v, FALSE, "ok").store
                ELSE ModelDelete(store, wr.old, FALSE).store
    /\ wr' = [wr EXCEPT !.pc = "persisted"]
    /\ UNCHANGED <<cache, rd, restOfRace>>

\* update_entity, delete_entity: self._cache_manager.delete(cache_key); return
WrInvalidate ==
    /\ wr.pc = "persisted"
    /\ cache' = CacheDelete(cache, _get_cache_key(wr.id))
    /\ wr' = [wr EXCEPT !.pc = "done"]
    /\ UNCHANGED <<store, rd, restOfRace>>

RNext ==
    \/ RdCacheGet
    \/ RdFetch
    \/ RdCacheSet
    \/ WrLookup
    \/ WrPersist
    \/ WrInvalidate

SpecRace == RInit /\ [][RNext]_vars

\* ------------------------------------ bulk_delete_entities and its gate
\* bulk_delete_entities called with any instances argument on a table with
\* rows.  The arguments of the call are kept (in mcall) next to its record.
DeleteArgs(objs, flt, dbFault) ==
    [MCall("bulk_delete_entities") EXCEPT !.objs = objs, !.flt = flt, !.fault = dbFault]

BulkDeleteAnyInstances ==
    /\ last = Idle
    /\ \E objs \in ObjLists, flt \in Filters, dbFault \in DbFaults, failIds \in SUBSET Ids :
        /\ failIds # {} => (cacheEnabled /\ dbFault = "ok" /\ objs # <<>>)
        /\ Effects(bulk_delete_entities(store, cache, cacheEnabled, objs, flt, dbFault, failIds))
        /\ mcall' = DeleteArgs(objs, flt, dbFault)

\* the caller takes the result
GateReturn ==
    /\ last # Idle
    /\ last' = Idle
    /\ mcall' = MIdle
    /\ UNCHANGED <<store, cache, cacheEnabled, deletedIds, cleanDeleted, prevGet,
                   counterVars, raceVars>>

GNext ==
    \/ BulkDeleteAnyInstances
    \/ GateReturn

GInit == TableInit /\ cacheEnabled \in BOOLEAN
SpecGate == GInit /\ [][GNext]_vars

\* ------------------------------------------------------------ the claims
IsCall(op) == last.op = op
IdKeyOfLast == _get_cache_key(last.id)
\* the call's cache read went through
ReadOk == last.cacheOps # <<>> /\ last.cacheOps[1].ok
\* the call attempted a cache delete and the backend raised
DeleteThrew ==
    \E n \in 1..Len(last.cacheOps) :
        last.cacheOps[n].op = "delete" /\ ~last.cacheOps[n].ok
Mutations == {"create_entity", "update_entity", "delete_entity",
              "bulk_create_entities", "bulk_update_entities", "bulk_delete_entities"}

\* C1: with the cache-enabled flag off, no Repository call invokes a
\* CacheManager operation: the cache is unchanged by every call, and a call
\* that returns gives back what the Manager returned.
C1_DisabledIsPassthrough ==
    [][(~cacheEnabled /\ last' # Idle) =>
          /\ cache' = cache
          /\ last'.cacheOps = <<>>
          /\ (last'.exc = "none" /\ last'.mgrReturned) =>
                (last'.ret = last'.mgrRet /\ last'.list = last'.mgrList)]_vars

\* Scenario B: flag off, the store holds the entity, get_entity_by_id returns it
C1_Witness ==
    /\ ~cacheEnabled
    /\ IsCall("get_entity_by_id")
    /\ last.ret # NoneVal
    /\ last.ret = store[last.id]

\* C2: with caching on, a get_entity_by_id that finds an entry under the id
\* key returns the cached value with no Manager call, no store query and no
\* cache set; and the get_entity_by_id that follows one that fetched the same
\* entity from the store makes no store query: one query for the two calls.
C2_HitSkipsStore ==
    /\ (cacheEnabled /\ IsCall("get_entity_by_id") /\ ReadOk /\ last.hit.present) =>
          /\ last.exc = "none"
          /\ last.ret = last.hit.ent
          /\ last.mgr = <<>>
          /\ last.db = 0
          /\ last.cacheOps = <<CacheOp("get", IdKeyOfLast, TRUE)>>
          /\ cache[IdKeyOfLast] = last.hit
    /\ (cacheEnabled /\ IsCall("get_entity_by_id") /\ prevGet # NoPrev
            /\ prevGet.id = last.id) =>
          /\ last.db = 0
          /\ prevGet.db + last.db = 1
          /\ last.exc = "none" => last.ret = store[last.id]

\* Scenario C: the second of two successive lookups hits the cache
C2_Witness ==
    /\ cacheEnabled
    /\ IsCall("get_entity_by_id")
    /\ prevGet # NoPrev /\ prevGet.id = last.id /\ prevGet.db = 1
    /\ last.ret # NoneVal
    /\ last.db = 0

\* C3: with caching on, a get_entity_by_id that misses calls Manager.get_by_id
\* exactly once; an entity it returns is by then stored under the id key with
\* the default TTL of 900 s; an absent result writes nothing to the cache, and
\* the store is queried on every such lookup of a well-formed id.
C3_MissFetchesAndCaches ==
    (cacheEnabled /\ IsCall("get_entity_by_id") /\ ReadOk /\ ~last.hit.present) =>
        /\ last.mgr = <<"get_by_id">>
        /\ last.id \in Ids => last.db = 1
        /\ last.ret # NoneVal =>
              /\ last.ret = last.mgrRet
              /\ cache[IdKeyOfLast] = EntEntry(last.ret, CACHE_TIMEOUT)
              /\ last.cacheOps = <<CacheOp("get", IdKeyOfLast, TRUE),
                                   CacheOp("set", IdKeyOfLast, TRUE)>>
        /\ (last.mgrReturned /\ last.mgrRet = NoneVal) =>
              /\ last.exc = "none" /\ last.ret = NoneVal
              /\ cache[IdKeyOfLast] = NoEntry
              /\ Len(last.cacheOps) = 1

\* a miss on an entity the store holds: fetched, cached with TTL 900, returned
C3_Witness ==
    /\ cacheEnabled
    /\ IsCall("get_entity_by_id")
    /\ ~last.hit.present
    /\ last.ret # NoneVal
    /\ cache[IdKeyOfLast].ttl = 900

\* C4: with caching on, after a create_entity that returned the new entity the
\* id key of the new id is absent from the cache, whatever the cache held
\* under it before the call.
C4_CreateInvalidatesIdKey ==
    (cacheEnabled /\ IsCall("create_entity") /\ last.ret # NoneVal) =>
        /\ ~cache[IdKeyOfLast].present
        /\ last.cacheOps = <<CacheOp("delete", IdKeyOfLast, TRUE)>>

\* the new id's key held a stale entry before the create
C4_Witness ==
    /\ cacheEnabled
    /\ IsCall("create_entity")
    /\ last.ret # NoneVal
    /\ last.hit.present

\* C5: with caching on, every successful mutation invalidates the collection
\* key "<type>_all" as well: after the call the collection entry is absent.
C5_MutationInvalidatesCollection ==
    (cacheEnabled /\ last.op \in Mutations /\ last.exc = "none" /\ last.persisted
        /\ (last.ret # NoneVal \/ last.list # <<>>)) =>
        ~cache[AllKey].present

\* C6: with caching on, an update_entity or delete_entity whose cache delete
\* throws still returns the updated or deleted entity without raising, and
\* the store keeps the mutation.
C6_CacheFailureIsNotFatal ==
    (cacheEnabled /\ last.op \in {"update_entity", "delete_entity"} /\ DeleteThrew) =>
        /\ last.exc = "none"
        /\ last.ret # NoneVal /\ last.ret.id = last.id
        /\ IsCall("update_entity") => store[last.id] = last.ret
        /\ IsCall("delete_entity") => store[last.id] = NoneVal

\* an update written to the store whose invalidation failed
C6_Witness ==
    /\ cacheEnabled
    /\ IsCall("update_entity")
    /\ last.persisted
    /\ DeleteThrew
    /\ last.hit.present

\* C7: with caching on, a create_entity whose entity is in the store and whose
\* cache delete throws still returns the created entity.
C7_CreateSurvivesCacheFailure ==
    (cacheEnabled /\ IsCall("create_entity") /\ last.persisted /\ DeleteThrew) =>
        last.ret # NoneVal

C9_DeleteIsIdempotent ==
    [][(last'.op = "delete_entity" /\ last'.wasDeleted /\ last'.mgrReturned) =>
          /\ last'.ret = NoneVal
          /\ last'.exc = "none"
          /\ store' = store
          /\ last'.cacheOps = <<>>
          /\ cache' = cache]_vars

\* the second delete of an id whose stale entry is still in the cache
C9_Witness ==
    /\ IsCall("delete_entity")
    /\ last.wasDeleted
    /\ last.mgrReturned
    /\ last.hit.present
    /\ last.ret = NoneVal

\* C10: with caching on, get_all_entities makes one get_or_set call under the
\* collection key and stores with a TTL of 600 s; when get_or_set raises, the
\* call falls back to an uncached fetch and returns what the store holds.
C10_GetAllReadsThrough ==
    (cacheEnabled /\ IsCall("get_all_entities")) =>
        /\ Len(last.cacheOps) = 1
        /\ last.cacheOps[1].op = "get_or_set" /\ last.cacheOps[1].key = AllKey
        /\ cache[AllKey].present => cache[AllKey].ttl = ALL_TIMEOUT
        /\ last.cacheOps[1].ok =>
              /\ last.exc = "none"
              /\ last.list = IF last.hit.present THEN last.hit.list ELSE AllRows(store)
              /\ cache[AllKey] = ListEntry(last.list, ALL_TIMEOUT)
        /\ (~last.cacheOps[1].ok /\ last.mgrReturned) =>
              /\ last.exc = "none"
              /\ last.list = AllRows(store)
              /\ cache[AllKey] = last.hit

\* the backend failed and the fallback fetch returned the rows
C10_Witness ==
    /\ cacheEnabled
    /\ IsCall("get_all_entities")
    /\ ~last.cacheOps[1].ok
    /\ last.exc = "none"
    /\ last.list # <<>>
    /\ last.db = 1

\* C11: get_all_entities never swallows a store failure: with caching on or
\* off, a call during which a fetch of the rows failed raises to the caller,
\* returns no list in its place and leaves the collection key as it was.
C11_FetchFailureIsRaised ==
    (IsCall("get_all_entities") /\ last.fetchFailed) =>
        /\ last.exc = "ValueError"
        /\ last.list = <<>>
        /\ cache[AllKey] = last.hit

C13_ConfigurationFailureIsRaised ==
    (IsCall("create_entity") /\ ~last.mgrReturned) => last.exc # "none"

\* ------------------------------------------- the claims on the Manager
IsMCall(op) == mcall.op = op
\* an id the Manager accepts: a non-negative integer or a string of digits
WellFormed(a) ==
    \/ a.kind = "int" /\ a.n >= 0
    \/ a.kind = "str" /\ a.s # <<>> /\ \A n \in 1..Len(a.s) : a.s[n] \in DigitChars
Ceil(n, b) == (n + b - 1) \div b
RECURSIVE Concat(_)
Concat(seqs) == IF seqs = <<>> THEN <<>> ELSE Head(seqs) \o Concat(Tail(seqs))
\* the k-th of the chunks of size b of a list
Chunk(l, b, k) == SubSeq(l, (k - 1) * b + 1, Min(k * b, Len(l)))
RECURSIVE ApplyAll(_, _, _)
\* the store after the batch updates of a list of batches, in order
ApplyAll(st, batches, fields) ==
    IF batches = <<>> THEN st
    ELSE ApplyAll(ApplyBatch(st, Head(batches), fields), Tail(batches), fields)
Range(l) == {l[n] : n \in 1..Len(l)}

\* C14: Manager.get_by_id does not swallow a storage failure: for every
\* well-formed id, when the store query fails the call raises a ValueError
\* (the LookupFailure) whose message is the cause's message, and returns
\* nothing.
C14_LookupFailureIsRaised ==
    (IsMCall("get_by_id") /\ WellFormed(mcall.arg) /\ mcall.cause # NoCause) =>
        /\ mcall.exc = Exc("ValueError", mcall.cause)
        /\ mcall.queries = <<mcall.arg>>

\* the query for the id "01" times out
C14_Witness ==
    /\ IsMCall("get_by_id")
    /\ mcall.arg = StrId(<<"0", "1">>)
    /\ mcall.cause = "timeout"
    /\ mcall.exc.msg = "timeout"

\* C15: Manager.get_by_id returns absent with no store query for every id
\* that is a negative integer, a non-digit string, a boolean, the empty string
\* or None, and issues exactly one store query, with the id as it was passed,
\* for every non-negative integer (0 included) and every digit string; on the
\* integer ids a Repository passes it is the lookup the Repository sees.
C15_FastReject ==
    IsMCall("get_by_id") =>
        /\ ~WellFormed(mcall.arg) =>
              mcall.ret = NoneVal /\ mcall.exc = NoExc /\ mcall.queries = <<>>
        /\ WellFormed(mcall.arg) => mcall.queries = <<mcall.arg>>
        /\ (mcall.arg.kind = "int" /\ mcall.arg.n \in ObjIds) =>
              LET m == MgrGetById(store, mcall.arg.n, mcall.cause # NoCause)
              IN  /\ m.ret = mcall.ret
                  /\ m.raised = (mcall.exc # NoExc)
                  /\ m.db = mcall.db

\* Scenario A: get_by_id(-1) is absent and the store is not asked
C15_Witness ==
    /\ IsMCall("get_by_id")
    /\ mcall.arg = IntId(-1)
    /\ mcall.ret = NoneVal
    /\ mcall.db = 0

\* C16: batch law of bulk_update_instances: for a non-empty list of n
\* entities, a non-empty field list and a batch size b >= 1, with no store
\* failure, there are ceil(n / b) batch updates, every batch but the last has
\* b entities, the batches in call order make up the input list, and the call
\* returns the input list.
C16_BatchLaw ==
    (IsMCall("bulk_update_instances") /\ mcall.objs # <<>> /\ mcall.fields # <<>>
        /\ (mcall.failAt = 0 \/ mcall.failAt > Ceil(Len(mcall.objs), mcall.b))) =>
        /\ Len(mcall.batches) = Ceil(Len(mcall.objs), mcall.b)
        /\ \A k \in 1..(Len(mcall.batches) - 1) : Len(mcall.batches[k]) = mcall.b
        /\ Len(mcall.batches[Len(mcall.batches)]) \in 1..mcall.b
        /\ Concat(mcall.batches) = mcall.objs
        /\ mcall.list = mcall.objs
        /\ mcall.exc = NoExc

\* five entities in batches of two: batches of 2, 2 and 1
C16_Witness ==
    /\ IsMCall("bulk_update_instances")
    /\ Len(mcall.objs) = 5
    /\ mcall.b = 2
    /\ Len(mcall.batches) = 3
    /\ Len(mcall.batches[3]) = 1
    /\ mcall.list = mcall.objs

C18_ChunkedInserts ==
    (IsMCall("bulk_create_instances") /\ mcall.objs # <<>>) =>
        /\ Len(mcall.inserts) = Ceil(Len(mcall.objs), mcall.b)
        /\ \A k \in 1..Len(mcall.inserts) :
              mcall.inserts[k].objs = Chunk(mcall.objs, mcall.b, k)

\* C18 as amended: bulk_create_instances with a non-empty list invokes the
\* underlying batch insert exactly once, with the whole input list in input
\* order and the batch size it was given; with an empty list it invokes
\* nothing.
C18_SingleInsertCall ==
    IsMCall("bulk_create_instances") =>
        mcall.inserts = IF mcall.objs = <<>> THEN <<>>
                        ELSE <<InsertCall(mcall.objs, mcall.b)>>

\* Scenario F: five entities and batch_size = 2
C18_Witness ==
    /\ IsMCall("bulk_create_instances")
    /\ Len(mcall.objs) = 5
    /\ mcall.b = 2
    /\ Len(mcall.inserts) = 1
    /\ Len(mcall.inserts[1].objs) = 5

\* a primary key of the list is in the table already, or twice in the list
Clash(st, objs) ==
    \/ \E n \in 1..Len(objs) : st[objs[n].id] # NoneVal
    \/ \E a, b \in 1..Len(objs) : a # b /\ objs[a].id = objs[b].id

\* C19: bulk_create_instances: an empty input returns the empty list with no
\* store call; a constraint violation returns the empty list without raising;
\* any other store failure is re-raised; on success the call returns what the
\* batch insert returned, the rows now in the store.
C19_BulkCreateFailures ==
    [][(mcall = MIdle /\ mcall'.op = "bulk_create_instances") =>
          /\ mcall'.objs = <<>> =>
                /\ mcall'.list = <<>> /\ mcall'.exc = NoExc
                /\ mcall'.db = 0 /\ mcall'.inserts = <<>> /\ store' = store
          /\ (mcall'.objs # <<>> /\ mcall'.fault = "other") =>
                mcall'.exc = DbError /\ store' = store
          /\ (mcall'.objs # <<>> /\ mcall'.fault # "other"
                /\ (mcall'.fault = "integrity" \/ Clash(store, mcall'.objs))) =>
                mcall'.list = <<>> /\ mcall'.exc = NoExc /\ store' = store
          /\ (mcall'.objs # <<>> /\ mcall'.fault = "ok" /\ ~Clash(store, mcall'.objs)) =>
                /\ mcall'.list = mcall'.objs /\ mcall'.exc = NoExc
                /\ \A n \in 1..Len(mcall'.objs) : store'[mcall'.objs[n].id] = mcall'.objs[n]
                /\ \A i \in Ids \ ObjIdsOf(mcall'.objs) : store'[i] = store[i]]_vars

\* a store failure that is no constraint violation comes back as an exception
C19_Witness ==
    /\ IsMCall("bulk_create_instances")
    /\ mcall.objs # <<>>
    /\ mcall.fault = "other"
    /\ mcall.exc = DbError

\* the delete step of a bulk_delete_instances that went through
DeleteStep ==
    /\ mcall.op = "bulk_delete_instances" /\ mcall.phase = "fetched"
    /\ mcall'.phase = "done" /\ mcall'.fault = "ok"
\* the rows a step removed from the store
Removed == {store[i] : i \in {j \in Ids : store[j] # NoneVal /\ store'[j] = NoneVal}}

DeleteCallStarts == mcall = MIdle /\ mcall'.op = "bulk_delete_instances"

\* C21: bulk_delete_instances with an empty predicate returns an empty
\* sequence and never queries or modifies the store; with a non-empty
\* predicate that matches nothing it issues the fetch only, no delete, and
\* returns an empty sequence when the fetch went through.
C21_EmptyPredicateDeletesNothing ==
    [][DeleteCallStarts =>
          /\ mcall'.flt = NoFilter =>
                /\ mcall'.list = <<>> /\ mcall'.exc = NoExc
                /\ mcall'.db = 0 /\ mcall'.phase = "done"
                /\ store' = store
          /\ (mcall'.flt # NoFilter /\ SelectSeq2(AllRows(store), mcall'.flt) = <<>>) =>
                /\ mcall'.list = <<>>
                /\ mcall'.db = 1 /\ mcall'.phase = "done"
                /\ store' = store
                /\ mcall'.fault # "other" => mcall'.exc = NoExc]_vars

\* the empty predicate was given while the table held rows
C21_Witness ==
    /\ IsMCall("bulk_delete_instances")
    /\ mcall.flt = NoFilter
    /\ mcall.list = <<>>
    /\ \E i \in Ids : store[i] # NoneVal

BulkOps == {"bulk_create_entities", "bulk_update_entities", "bulk_delete_entities"}
\* a bulk call whose Manager call gave back a list of affected entities
BulkCallDone == last = Idle /\ last'.op \in BulkOps /\ last'.mgrReturned /\ last'.mgrList # <<>>

\* C22: in a bulk operation with the cache on, whichever of the affected ids
\* have a failing cache delete, one cache delete is attempted for every
\* entity the Manager returned, in order; the deletes that go through remove
\* their entries, and the call returns the Manager's list without raising.
C22_InvalidationFailuresAreIsolated ==
    [][(cacheEnabled /\ BulkCallDone) =>
          /\ Len(last'.cacheOps) = Len(last'.mgrList)
          /\ \A n \in 1..Len(last'.mgrList) :
                /\ last'.cacheOps[n].op = "delete"
                /\ last'.cacheOps[n].key = _get_cache_key(last'.mgrList[n].id)
                /\ cache'[last'.cacheOps[n].key] =
                      IF last'.cacheOps[n].ok THEN NoEntry ELSE cache[last'.cacheOps[n].key]
          /\ last'.exc = "none"
          /\ last'.list = last'.mgrList]_vars

\* the first delete of a bulk call failed and a later one went through
C22_Witness ==
    /\ last.op \in BulkOps
    /\ Len(last.cacheOps) = 2
    /\ ~last.cacheOps[1].ok
    /\ last.cacheOps[2].ok
    /\ last.exc = "none"

\* a bulk call that reached the Manager
BulkCallMade == last = Idle /\ last'.op \in BulkOps /\ last'.mgr # <<>>

\* C23: when the Manager raises during a bulk operation the Repository
\* raises to the caller and performs no cache deletion; when the Manager
\* reduced the failure to an empty result the Repository returns the empty
\* result and performs no cache deletion.
C23_DurableFailureSkipsInvalidation ==
    [][BulkCallMade =>
          /\ ~last'.mgrReturned =>
                /\ last'.exc # "none"
                /\ last'.cacheOps = <<>> /\ cache' = cache
          /\ (last'.mgrReturned /\ last'.mgrList = <<>>) =>
                /\ last'.exc = "none"
                /\ last'.list = <<>> /\ last'.count = 0
                /\ last'.cacheOps = <<>> /\ cache' = cache]_vars

\* the Manager raised in a bulk call made with the cache on and filled
C23_Witness ==
    /\ cacheEnabled
    /\ last.op \in BulkOps
    /\ last.mgr # <<>>
    /\ ~last.mgrReturned
    /\ last.exc # "none"
    /\ \E i \in Ids : cache[_get_cache_key(i)].present

\* a caller's incr reaches the backend; its except branch resets the counter
IncrStarts(p) == incrs[p].pc = "idle" /\ incrs'[p].pc # "idle"
IncrResets(p) == incrs[p].pc = "missed" /\ incrs'[p].pc = "done"

\* C24: incr(key, delta) on a key holding the integer v returns v + delta and
\* leaves the key holding v + delta; on a key that is not set it does not
\* raise: for every delta it sets the key to 1 with the default TTL of 900 s
\* and returns 1.
C24_IncrSelfHeals ==
    [][\A p \in Callers :
          /\ (IncrStarts(p) /\ counters[CounterKey].present) =>
                /\ incrs'[p].pc = "done" /\ ~incrs'[p].missed
                /\ incrs'[p].ret = counters[CounterKey].num + incrs'[p].delta
                /\ counters'[CounterKey] =
                      NumEntry(counters[CounterKey].num + incrs'[p].delta,
                               counters[CounterKey].ttl)
          /\ (IncrStarts(p) /\ ~counters[CounterKey].present) =>
                /\ incrs'[p].pc = "missed"
                /\ counters' = counters
          /\ IncrResets(p) =>
                /\ incrs'[p].ret = 1
                /\ counters'[CounterKey] = NumEntry(1, CACHE_TIMEOUT)]_vars

\* an incr by 2 of a key that was not set has returned
C24_Witness ==
    \E p \in Callers :
        /\ incrs[p] = IncrCall("done", 2, TRUE, 1)
        /\ counters[CounterKey] = NumEntry(1, CACHE_TIMEOUT)
        /\ hist = <<Wrote(p, "reset", 1)>>

\* the Manager's get_by_id raised in a call that resolves an entity by id
LookupFailed(c) == c.mgr = <<"get_by_id">> /\ ~c.mgrReturned
\* what get_entity_by_id, update_entity and delete_entity of an id do when
\* the store fails the lookup
FailedLookups(st, ch, en, objId) ==
    {c \in {get_entity_by_id(st, ch, en, objId, FALSE, FALSE, TRUE).call,
             update_entity(st, ch, en, objId, 1, FALSE, TRUE, "ok", FALSE).call,
             delete_entity(st, ch, en, objId, TRUE, FALSE, FALSE).call} : LookupFailed(c)}

\* C25: get_entity_by_id, update_entity and delete_entity treat a storage
\* failure raised by the Manager's get_by_id in one way: when a call has met
\* such a failure, each of the three operations meets it as that call did,
\* all reporting absent or all raising to the caller.
C25_UniformLookupDiscipline ==
    (last.id \in Ids /\ LookupFailed(last)) =>
        \A c \in FailedLookups(store, cache, cacheEnabled, last.id) :
            (c.exc = "none") = (last.exc = "none")

RECURSIVE ValueAfter(_)
\* the number a key holds after a sequence of writes: a set or a reset puts
\* its number, an increment adds its delta
ValueAfter(h) ==
    IF h = <<>> THEN 0
    ELSE LET w == h[Len(h)]
         IN  IF w.kind = "incr" THEN ValueAfter(SubSeq(h, 1, Len(h) - 1)) + w.n ELSE w.n

BothReturned == rd.pc = "done" /\ wr.pc = "done" /\ rd.id = wr.id /\ wr.old # NoneVal
\* the id's cache entry holds the entity as it was before the mutation
HoldsPreMutation ==
    /\ cache[_get_cache_key(wr.id)].present
    /\ cache[_get_cache_key(wr.id)].ent = wr.old
    /\ store[wr.id] # wr.old

Coherent(st, ch) ==
    \A i \in Ids : ch[_get_cache_key(i)].present => ch[_get_cache_key(i)].ent = st[i]
\* no CacheManager operation of the call failed
NoCacheFailure(c) == \A n \in 1..Len(c.cacheOps) : c.cacheOps[n].ok

\* C28: for a single caller with the cache on and a cache backend that does
\* not fail, every completed Repository call, returned or raised, leaves
\* every present id-keyed cache entry equal to the entity the store holds for
\* that id (stated as: a call whose cache operations all went through takes
\* a coherent cache to a coherent cache; the cache starts empty).
C28_SequentialCoherence ==
    [][(cacheEnabled /\ last = Idle /\ last' # Idle /\ NoCacheFailure(last')
           /\ Coherent(store, cache)) => Coherent(store', cache')]_vars

\* a call of get_all_entities completes
GetAllDone == last = Idle /\ last'.op = "get_all_entities"
\* the number of times the call invoked Manager.get_all
Fetches(c) == Len(c.mgr)

\* C29 as stated: a single get_all_entities call invokes Manager.get_all at
\* most once, whatever the cache backend or the store does during the call.
C29_AtMostOneFetch ==
    [][GetAllDone => Fetches(last') <= 1]_vars

\* C29 as amended: a single get_all_entities call invokes Manager.get_all at
\* most twice, each time with one store query.  With the cache off it fetches
\* once; when get_or_set goes through it fetches not at all (a hit) or once
\* (a miss); it fetches twice only with the cache on, when get_or_set raised
\* after its compute function had run (the fetch inside it failed, or the
\* cache write after it failed), and then nothing is stored in the cache.
C29_AtMostTwoFetches ==
    [][GetAllDone =>
          /\ Fetches(last') <= 2
          /\ last'.db = Fetches(last')
          /\ ~cacheEnabled => Fetches(last') = 1
          /\ (cacheEnabled /\ last'.cacheOps[1].ok) =>
                Fetches(last') = IF cache[AllKey].present THEN 0 ELSE 1
          /\ Fetches(last') = 2 =>
                /\ cacheEnabled
                /\ ~cache[AllKey].present
                /\ last'.cacheOps = <<CacheOp("get_or_set", AllKey, FALSE)>>
                /\ cache' = cache]_vars

\* the cache write failed after the fetch had gone through: the call fetched
\* again and returned the list
C29_Witness ==
    /\ IsCall("get_all_entities")
    /\ Fetches(last) = 2
    /\ ~last.fetchFailed
    /\ last.exc = "none"
    /\ last.list # <<>>

\* a call of bulk_delete_entities completes
BulkDeleteDone == last = Idle /\ last'.op = "bulk_delete_entities"
\* the rows of a table that match a predicate (none for the empty predicate)
Matching(st, flt) == IF flt = NoFilter THEN <<>> ELSE SelectSeq2(AllRows(st), flt)

\* C30: in bulk_delete_entities(instances, predicate) the entities removed
\* from the store, returned and invalidated in the cache are the ones that
\* match the predicate when the call fetches them, whatever the instances
\* argument contains; the instances argument only gates the call (empty
\* instances: nothing is deleted and the Manager is not called, also with a
\* non-empty predicate), and the count returned is the length of the list
\* returned.
C30_InstancesOnlyGate ==
    [][BulkDeleteDone =>
          LET hits == Matching(store, mcall'.flt)
          IN  /\ last'.count = Len(last'.list)
              /\ mcall'.objs = <<>> =>
                    /\ last'.mgr = <<>> /\ last'.list = <<>> /\ last'.exc = "none"
                    /\ store' = store /\ cache' = cache
              /\ mcall'.objs # <<>> => last'.mgr = <<"bulk_delete_instances">>
              /\ (mcall'.objs # <<>> /\ mcall'.fault = "ok") =>
                    /\ last'.list = hits
                    /\ store' = [i \in Ids |-> IF store[i] \in Range(hits) THEN NoneVal
                                                ELSE store[i]]
                    /\ cacheEnabled =>
                          /\ Len(last'.cacheOps) = Len(hits)
                          /\ \A n \in 1..Len(hits) :
                                /\ last'.cacheOps[n].key = _get_cache_key(hits[n].id)
                                /\ last'.cacheOps[n].ok =>
                                      ~cache'[_get_cache_key(hits[n].id)].present
                          /\ \A i \in Ids : store[i] \notin Range(hits) =>
                                cache'[_get_cache_key(i)] = cache[_get_cache_key(i)]]_vars

\* the entities a call removed and returned are not the ones its instances
\* argument held
C30_Witness ==
    /\ IsCall("bulk_delete_entities")
    /\ last.exc = "none"
    /\ last.list # <<>>
    /\ Range(last.list) \cap Range(mcall.objs) = {}
    /\ \A n \in 1..Len(last.list) : store[last.list[n].id] = NoneVal
    /\ \A n \in 1..Len(mcall.objs) : store[mcall.objs[n].id] # NoneVal

====
